---- MODULE Spec2Model ----
(***************************************************************************)
(* Model of rebuild_camera_bundles.py: one batch process that globs the    *)
(* regional files of the working directory, accumulates the staticAlerts   *)
(* of feeds[0] of each, writes the unsorted bundle, sorts a copy and       *)
(* writes the sorted bundle.  The working directory outlives the process,  *)
(* so the script can be started again on the directory it left behind.     *)
(*                                                                         *)
(* Strings (file names, field values) are sequences of code points, so     *)
(* that 'Bundle' in f, sorted(), str.upper() and tuple comparison are      *)
(* computed as Python computes them.                                       *)
(***************************************************************************)
EXTENDS Integers, Sequences, FiniteSets

VARIABLES
    disk,              \* working directory: file name -> content
    disk0,             \* the directory as it was when the current process started
    second_run,        \* FALSE in the first process, TRUE in the one started after it
    prev_exit,         \* exit status of the previous process (-1: there was none)
    pc,                \* position of the process in rebuild_bundles / __main__
    regional_files,    \* line 19-22: the glob result after the filter, listing order
    queue,             \* line 30: what is left of sorted(regional_files)
    opened,            \* names handed to open(.., 'r') at line 35 by this process
    all_cameras,       \* line 27
    regions_processed, \* line 28
    sorted_cameras,    \* line 81
    camera_count,      \* line 115: the value rebuild_bundles returned (-1: none)
    exit_code,         \* exit status of the process (-1: still running)
    err                \* the exception __main__ caught at line 117

vars == <<disk, disk0, second_run, prev_exit, pc, regional_files, queue, opened,
          all_cameras, regions_processed, sorted_cameras, camera_count,
          exit_code, err>>

\* Largest number of records the regional files of one directory hold together.
MaxTotal == 3

\* Largest number of accumulated records the sort is applied to in SortSpec.
MaxSortLen == 4

-----------------------------------------------------------------------------
(* Strings *)

S_Prefix == <<67, 97, 109, 101, 114, 97, 95, 68, 97, 116, 97, 98, 97, 115, 101, 95>>
S_Json   == <<46, 106, 115, 111, 110>>
S_Bundle == <<66, 117, 110, 100, 108, 101>>
S_Sorted == <<95, 83, 111, 114, 116, 101, 100>>

\* 'Camera_Database_Bundle.json' (line 73), 'Camera_Database_Bundle_Sorted.json' (line 104)
bundle_path        == S_Prefix \o S_Bundle \o S_Json
sorted_bundle_path == S_Prefix \o S_Bundle \o S_Sorted \o S_Json

\* Regional files of the directory: Camera_Database_TX.json, Camera_Database_CA.json;
\* notes.json is a file the glob pattern does not match.
N_TX    == S_Prefix \o <<84, 88>> \o S_Json
N_CA    == S_Prefix \o <<67, 65>> \o S_Json
N_Notes == <<110, 111, 116, 101, 115>> \o S_Json

RegionalNames == {N_TX, N_CA}
Names == RegionalNames \cup {bundle_path, sorted_bundle_path, N_Notes}

\* Python's < on str: code point by code point, a proper prefix is smaller.
RECURSIVE StrLess(_, _)
StrLess(a, b) ==
    IF a = <<>> THEN b # <<>>
    ELSE IF b = <<>> THEN FALSE
    ELSE IF Head(a) # Head(b) THEN Head(a) < Head(b)
    ELSE StrLess(Tail(a), Tail(b))

StartsWith(s, p) == Len(s) >= Len(p) /\ SubSeq(s, 1, Len(p)) = p
EndsWith(s, p)   == Len(s) >= Len(p) /\ SubSeq(s, Len(s) - Len(p) + 1, Len(s)) = p

\* sub in s
Contains(s, sub) ==
    \E i \in 1..(Len(s) - Len(sub) + 1) : SubSeq(s, i, i + Len(sub) - 1) = sub

\* s.replace(old, ''), left to right, non-overlapping
RECURSIVE Remove(_, _)
Remove(s, old) ==
    IF s = <<>> THEN <<>>
    ELSE IF StartsWith(s, old) THEN Remove(SubSeq(s, Len(old) + 1, Len(s)), old)
    ELSE <<Head(s)>> \o Remove(Tail(s), old)

\* Path(f).stem for a name without directory part: the name up to its last dot,
\* the whole name when it has no dot after its first character.
Stem(f) ==
    LET dots == {i \in 2..Len(f) : f[i] = 46}
    IN  IF dots = {} THEN f
        ELSE SubSeq(f, 1, (CHOOSE i \in dots : \A j \in dots : j <= i) - 1)

\* line 31
RegionName(f) == Remove(Stem(f), S_Prefix)

\* str.upper() on the ASCII letters the model's strings are made of
UpperChar(c) == IF c >= 97 /\ c <= 122 THEN c - 32 ELSE c
RECURSIVE Upper(_)
Upper(s) == IF s = <<>> THEN <<>> ELSE <<UpperChar(Head(s))>> \o Upper(Tail(s))

\* fnmatch of a name against 'Camera_Database_*.json' (line 19)
GlobMatch(f) ==
    /\ Len(f) >= Len(S_Prefix) + Len(S_Json)
    /\ StartsWith(f, S_Prefix)
    /\ EndsWith(f, S_Json)

-----------------------------------------------------------------------------
(* Records *)

\* A field of a record: absent, a string, or a value that is no string
\* (a number, null, a list, ...).
Absent   == [p |-> "absent", s |-> <<>>]
Str(s)   == [p |-> "str", s |-> s]
NotAStr  == [p |-> "other", s |-> <<>>]

\* An element of a staticAlerts value: a mapping with its three sort fields
\* and the rest of its content (id stands for every field the script never
\* reads), or an element that is no mapping (kind "other").
Cam(id, state, city, street) ==
    [kind |-> "obj", id |-> id, state |-> state, city |-> city, street |-> street]

c_tx_a    == Cam(1, Str(<<116, 120>>), Str(<<97>>), Absent)          \* tx / a / -
c_TX_A    == Cam(2, Str(<<84, 88>>), Str(<<65>>), Str(<<>>))         \* TX / A / ""
c_TX_A_B  == Cam(3, Str(<<84, 88>>), Str(<<65>>), Str(<<66>>))       \* TX / A / B
c_TX_b    == Cam(4, Str(<<84, 88>>), Absent, Str(<<98>>))            \* TX / - / b
c_CA      == Cam(5, Str(<<67, 65>>), Str(<<98>>), Str(<<97>>))       \* CA / b / a
c_num     == Cam(6, NotAStr, Str(<<65>>), Absent)                    \* state: 7
c_nomap   == [kind |-> "other", id |-> 7, state |-> Absent, city |-> Absent,
              street |-> Absent]                                     \* "abc"

Cameras == {c_tx_a, c_TX_A, c_TX_A_B, c_TX_b, c_CA, c_num, c_nomap}

\* The records the regional files of Init are made of: two the sort has to
\* swap when they come in file order TX, CA or CA, TX, and one it raises on.
FileCameras == {c_tx_a, c_CA, c_num}

-----------------------------------------------------------------------------
(* Files *)

\* What lines 35-43 can meet in a file that the glob listed:
\*   unreadable   open() or json.load raises (no permission, a directory,
\*                malformed or truncated JSON)
\*   scalar       the document is a number, null or a boolean: 'feeds' in data raises
\*   no_feeds     the document (an object or a list) has no 'feeds'
\*   empty_feeds  feeds is empty
\*   bad_feeds    feeds is a number, null or an object, or feeds[0] is a number:
\*                len(), [0] or 'staticAlerts' in feed raises
\*   no_static    feeds[0] has no 'staticAlerts'
\*   bad_static   staticAlerts is not iterable: all_cameras.extend raises
\*   ok           staticAlerts is iterable; alerts is the sequence iterating it yields
SkipShapes == {"unreadable", "scalar", "no_feeds", "empty_feeds", "bad_feeds",
               "no_static", "bad_static"}

NoFile == [shape |-> "absent", desc |-> "none", alerts |-> <<>>]
Broken(shape) == [shape |-> shape, desc |-> "none", alerts |-> <<>>]
Doc(desc, alerts) == [shape |-> "ok", desc |-> desc, alerts |-> alerts]

\* lines 59-70 and 90-101: the envelope; its fixed fields other than the
\* description are the same in both bundles
Bundle(desc, cameras) == Doc(desc, cameras)

\* A bundle file cut short by a failed json.dump
Truncated == Broken("unreadable")

-----------------------------------------------------------------------------
(* The steps of rebuild_bundles as operators *)

\* Mutant of ExcludeBundles: the filter of line 22 is missing
KeepBundles(files) == files

\* line 22: the list comprehension keeps the listing order
RECURSIVE ExcludeBundles(_)
ExcludeBundles(files) ==
    IF files = <<>> THEN <<>>
    ELSE IF Contains(Head(files), S_Bundle) THEN ExcludeBundles(Tail(files))
    ELSE <<Head(files)>> \o ExcludeBundles(Tail(files))

\* line 30: sorted(regional_files), ascending by str comparison
RECURSIVE InsertName(_, _)
InsertName(f, s) ==
    IF s = <<>> THEN <<f>>
    ELSE IF StrLess(f, Head(s)) THEN <<f>> \o s
    ELSE <<Head(s)>> \o InsertName(f, Tail(s))

\* Mutant of SortedNames: the loop walks regional_files in listing order
ListingOrder(files) == files

RECURSIVE SortedNames(_)
SortedNames(files) ==
    IF files = <<>> THEN <<>>
    ELSE InsertName(files[Len(files)], SortedNames(SubSeq(files, 1, Len(files) - 1)))

\* lines 35-49 on the content of one file: what the try block ends in and
\* the cameras it took from the file
Extract(content) ==
    IF content.shape \in {"absent", "unreadable", "scalar", "bad_feeds", "bad_static"}
    THEN [outcome |-> "error", cameras |-> <<>>]
    ELSE IF content.shape \in {"no_feeds", "empty_feeds"}
    THEN [outcome |-> "no_feeds", cameras |-> <<>>]
    ELSE IF content.shape = "no_static"
    THEN [outcome |-> "no_static", cameras |-> <<>>]
    ELSE [outcome |-> "added", cameras |-> content.alerts]

\* Mutants of ListExtend: the new cameras go in front; the new cameras
\* replace the accumulator
ListExtendFront(acc, cameras) == cameras \o acc
ListAssign(acc, cameras) == cameras

\* line 43: all_cameras.extend(cameras)
ListExtend(acc, cameras) == acc \o cameras

\* lines 84-86: x.get(name, '').upper(); it raises AttributeError when x is
\* no mapping (no .get) or the field holds a value that is no string (no .upper)
FieldRaises(x, field) == x.kind # "obj" \/ field.p = "other"
KeyPart(field) == IF field.p = "str" THEN Upper(field.s) ELSE <<>>

KeyRaises(x) ==
    FieldRaises(x, x.state) \/ FieldRaises(x, x.city) \/ FieldRaises(x, x.street)

\* Mutant of SortKey: the components are compared as written, not upper-cased
RawPart(field) == IF field.p = "str" THEN field.s ELSE <<>>
SortKeyRaw(x) == <<RawPart(x.state), RawPart(x.city), RawPart(x.street)>>

\* lines 83-87, for an x on which the lambda does not raise
SortKey(x) == <<KeyPart(x.state), KeyPart(x.city), KeyPart(x.street)>>

\* Python's < on tuples of str: the first differing component decides
TupleLess(k1, k2) ==
    IF k1[1] # k2[1] THEN StrLess(k1[1], k2[1])
    ELSE IF k1[2] # k2[2] THEN StrLess(k1[2], k2[2])
    ELSE StrLess(k1[3], k2[3])

\* sorted() is stable: an element goes behind every element whose key is not
\* greater than its own
RECURSIVE InsertByKey(_, _)
InsertByKey(x, s) ==
    IF s = <<>> THEN <<x>>
    ELSE IF TupleLess(SortKey(x), SortKey(Head(s))) THEN <<x>> \o s
    ELSE <<Head(s)>> \o InsertByKey(x, Tail(s))

\* Mutant of Sorted: an unstable sort, an element goes in front of the
\* elements whose key equals its own
RECURSIVE InsertBeforeEqual(_, _)
InsertBeforeEqual(x, s) ==
    IF s = <<>> THEN <<x>>
    ELSE IF ~TupleLess(SortKey(Head(s)), SortKey(x)) THEN <<x>> \o s
    ELSE <<Head(s)>> \o InsertBeforeEqual(x, Tail(s))

RECURSIVE SortedUnstable(_)
SortedUnstable(cameras) ==
    IF cameras = <<>> THEN <<>>
    ELSE InsertBeforeEqual(cameras[Len(cameras)],
                           SortedUnstable(SubSeq(cameras, 1, Len(cameras) - 1)))

\* Mutant of Sorted: the records are sorted as a set, a record that occurs
\* twice is kept once
RECURSIVE InsertUnique(_, _)
InsertUnique(x, s) ==
    IF s = <<>> THEN <<x>>
    ELSE IF x = Head(s) THEN s
    ELSE IF TupleLess(SortKey(x), SortKey(Head(s))) THEN <<x>> \o s
    ELSE <<Head(s)>> \o InsertUnique(x, Tail(s))

RECURSIVE SortedUnique(_)
SortedUnique(cameras) ==
    IF cameras = <<>> THEN <<>>
    ELSE InsertUnique(cameras[Len(cameras)],
                      SortedUnique(SubSeq(cameras, 1, Len(cameras) - 1)))

\* lines 81-88, when no key raises
RECURSIVE Sorted(_)
Sorted(cameras) ==
    IF cameras = <<>> THEN <<>>
    ELSE InsertByKey(cameras[Len(cameras)],
                     Sorted(SubSeq(cameras, 1, Len(cameras) - 1)))

\* lines 81-88 raise when the key of any element raises (every key is
\* computed before the first comparison)
SortRaises(cameras) == \E i \in 1..Len(cameras) : KeyRaises(cameras[i])

\* Mutant of ExitStatus: the except clause of __main__ reports and falls through
ExitStatusZero(raised) == 0

\* lines 113-119: the exit status of the process
ExitStatus(raised) == IF raised THEN 1 ELSE 0

-----------------------------------------------------------------------------
(* Initial states *)

SeqsOfLen(S, n) == [1..n -> S]

\* What a bundle file left by an earlier run of the script holds
StaleUnsorted == Bundle("unsorted", <<c_TX_A_B, c_CA>>)
StaleSorted   == Bundle("sorted", <<c_CA, c_TX_A_B>>)

RegionalShapes == SkipShapes \cup {"absent", "ok"}

RegionalFile(shape, alerts) ==
    IF shape = "ok" THEN Doc("regional", alerts)
    ELSE IF shape = "absent" THEN NoFile
    ELSE Broken(shape)

Init ==
    /\ \E sh1, sh2 \in RegionalShapes :
       \E n1 \in 0..MaxTotal :
       \E n2 \in 0..(MaxTotal - n1) :
       \E a1 \in SeqsOfLen(FileCameras, n1), a2 \in SeqsOfLen(FileCameras, n2) :
       \E stale \in BOOLEAN :
          /\ sh1 # "ok" => n1 = 0
          /\ sh2 # "ok" => n2 = 0
          /\ disk = [f \in Names |->
                       IF f = N_TX THEN RegionalFile(sh1, a1)
                       ELSE IF f = N_CA THEN RegionalFile(sh2, a2)
                       ELSE IF f = bundle_path
                            THEN IF stale THEN StaleUnsorted ELSE NoFile
                       ELSE IF f = sorted_bundle_path
                            THEN IF stale THEN StaleSorted ELSE NoFile
                       ELSE Doc("regional", <<c_CA>>)]
    /\ disk0 = disk
    /\ second_run = FALSE
    /\ prev_exit = -1
    /\ pc = "discover"
    /\ regional_files = <<>>
    /\ queue = <<>>
    /\ opened = {}
    /\ all_cameras = <<>>
    /\ regions_processed = <<>>
    /\ sorted_cameras = <<>>
    /\ camera_count = -1
    /\ exit_code = -1
    /\ err = "none"

-----------------------------------------------------------------------------
(* Actions *)

Present == {f \in Names : disk[f].shape # "absent"}

\* The orders in which a directory listing can return the files of S
Listings(S) ==
    {s \in [1..Cardinality(S) -> S] : \A i, j \in 1..Cardinality(S) : i # j => s[i] # s[j]}

AfterDiscover(files) == IF files = <<>> THEN "write_unsorted" ELSE "load"

\* lines 19-30: glob, filter, sorted()
Discover ==
    /\ pc = "discover"
    /\ \E listing \in Listings({f \in Present : GlobMatch(f)}) :
          /\ regional_files' = ExcludeBundles(listing)
          /\ queue' = SortedNames(regional_files')
          /\ pc' = AfterDiscover(regional_files')
    /\ UNCHANGED <<disk, disk0, second_run, prev_exit, opened, all_cameras,
                   regions_processed, sorted_cameras, camera_count, exit_code, err>>

\* An exception that leaves rebuild_bundles: lines 117-119
Fatal(e) ==
    /\ pc' = "failed"
    /\ err' = e
    /\ exit_code' = ExitStatus(TRUE)

\* Mutant of LoadFile: the except clause re-raises instead of going on
LoadFileAbort ==
    /\ pc = "load"
    /\ queue # <<>>
    /\ LET f == Head(queue)
           r == Extract(disk[f])
       IN  /\ opened' = opened \cup {f}
           /\ IF r.outcome = "added"
              THEN /\ all_cameras' = ListExtend(all_cameras, r.cameras)
                   /\ regions_processed' = Append(regions_processed, RegionName(f))
              ELSE UNCHANGED <<all_cameras, regions_processed>>
           /\ IF r.outcome = "error"
              THEN /\ Fatal("Exception")
                   /\ UNCHANGED queue
              ELSE /\ queue' = Tail(queue)
                   /\ pc' = IF queue' = <<>> THEN "write_unsorted" ELSE "load"
                   /\ UNCHANGED <<exit_code, err>>
    /\ UNCHANGED <<disk, disk0, second_run, prev_exit, regional_files,
                   sorted_cameras, camera_count>>

\* lines 30-53: one iteration of the loop.  Every exception of the try block
\* is caught at line 51 and the loop goes on.
LoadFile ==
    /\ pc = "load"
    /\ queue # <<>>
    /\ LET f == Head(queue)
           r == Extract(disk[f])
       IN  /\ opened' = opened \cup {f}
           /\ IF r.outcome = "added"
              THEN /\ all_cameras' = ListExtend(all_cameras, r.cameras)
                   /\ regions_processed' = Append(regions_processed, RegionName(f))
              ELSE UNCHANGED <<all_cameras, regions_processed>>
           /\ queue' = Tail(queue)
           /\ pc' = IF queue' = <<>> THEN "write_unsorted" ELSE "load"
    /\ UNCHANGED <<disk, disk0, second_run, prev_exit, regional_files,
                   sorted_cameras, camera_count, exit_code, err>>

\* Mutant of WriteUnsorted: the unsorted bundle is not written before the sort
WriteUnsortedLate ==
    /\ pc = "write_unsorted"
    /\ pc' = "sort"
    /\ UNCHANGED <<disk, disk0, second_run, prev_exit, regional_files, queue, opened,
                   all_cameras, regions_processed, sorted_cameras, camera_count,
                   exit_code, err>>

\* lines 59-77.  open(.., 'w') can fail and leave the file as it was;
\* json.dump can fail after open truncated the file (an OSError, or the
\* UnicodeEncodeError of a lone surrogate); err "WriteError" stands for both.
WriteUnsorted ==
    /\ pc = "write_unsorted"
    /\ \/ /\ disk' = [disk EXCEPT ![bundle_path] = Bundle("unsorted", all_cameras)]
          /\ pc' = "sort"
          /\ UNCHANGED <<err, exit_code>>
       \/ /\ UNCHANGED disk
          /\ Fatal("WriteError")
       \/ /\ disk' = [disk EXCEPT ![bundle_path] = Truncated]
          /\ Fatal("WriteError")
    /\ UNCHANGED <<disk0, second_run, prev_exit, regional_files, queue, opened,
                   all_cameras, regions_processed, sorted_cameras, camera_count>>

\* lines 81-88
SortCameras ==
    /\ pc = "sort"
    /\ IF SortRaises(all_cameras)
       THEN /\ Fatal("AttributeError")
            /\ UNCHANGED sorted_cameras
       ELSE /\ sorted_cameras' = Sorted(all_cameras)
            /\ pc' = "write_sorted"
            /\ UNCHANGED <<err, exit_code>>
    /\ UNCHANGED <<disk, disk0, second_run, prev_exit, regional_files, queue,
                   opened, all_cameras, regions_processed, camera_count>>

\* lines 90-111 and 115-116
WriteSorted ==
    /\ pc = "write_sorted"
    /\ \/ /\ disk' = [disk EXCEPT ![sorted_bundle_path] = Bundle("sorted", sorted_cameras)]
          /\ pc' = "done"
          /\ camera_count' = Len(all_cameras)
          /\ exit_code' = ExitStatus(FALSE)
          /\ UNCHANGED err
       \/ /\ UNCHANGED <<disk, camera_count>>
          /\ Fatal("WriteError")
       \/ /\ disk' = [disk EXCEPT ![sorted_bundle_path] = Truncated]
          /\ UNCHANGED camera_count
          /\ Fatal("WriteError")
    /\ UNCHANGED <<disk0, second_run, prev_exit, regional_files, queue, opened,
                   all_cameras, regions_processed, sorted_cameras>>

\* The script is started again in the directory the first process left
Rerun ==
    /\ pc \in {"done", "failed"}
    /\ ~second_run
    /\ second_run' = TRUE
    /\ prev_exit' = exit_code
    /\ disk0' = disk
    /\ pc' = "discover"
    /\ regional_files' = <<>>
    /\ queue' = <<>>
    /\ opened' = {}
    /\ all_cameras' = <<>>
    /\ regions_processed' = <<>>
    /\ sorted_cameras' = <<>>
    /\ camera_count' = -1
    /\ exit_code' = -1
    /\ err' = "none"
    /\ UNCHANGED disk

Next == Discover \/ LoadFile \/ WriteUnsorted \/ SortCameras \/ WriteSorted \/ Rerun

Spec == Init /\ [][Next]_vars

-----------------------------------------------------------------------------
(* The sort on its own: the process stands before line 81 with any sequence *)
(* of up to MaxSortLen records accumulated from Camera_Database_TX.json and *)
(* written to the unsorted bundle.                                          *)

SortInit ==
    /\ \E n \in 0..MaxSortLen : \E a \in SeqsOfLen(Cameras, n) :
          /\ all_cameras = a
          /\ disk = [f \in Names |->
                       IF f = N_TX THEN Doc("regional", a)
                       ELSE IF f = bundle_path THEN Bundle("unsorted", a)
                       ELSE IF f = N_Notes THEN Doc("regional", <<c_CA>>)
                       ELSE NoFile]
          /\ disk0 = [disk EXCEPT ![bundle_path] = NoFile]
    /\ second_run = FALSE
    /\ prev_exit = -1
    /\ pc = "sort"
    /\ regional_files = <<N_TX>>
    /\ queue = <<>>
    /\ opened = {N_TX}
    /\ regions_processed = <<RegionName(N_TX)>>
    /\ sorted_cameras = <<>>
    /\ camera_count = -1
    /\ exit_code = -1
    /\ err = "none"

SortNext == SortCameras \/ WriteSorted

SortSpec == SortInit /\ [][SortNext]_vars

-----------------------------------------------------------------------------
(* Vocabulary of the properties, stated on the directory and the bundles *)

UnsortedAlerts == disk[bundle_path].alerts
SortedAlerts   == disk[sorted_bundle_path].alerts

\* The candidate files of the directory: names of the regional pattern that
\* do not contain 'Bundle'
Candidates ==
    {f \in Names : disk[f].shape # "absent" /\ GlobMatch(f) /\ ~Contains(f, S_Bundle)}

\* A candidate is successfully extracted when it parses and has feeds[0].staticAlerts
Extracted(f) == disk[f].shape = "ok"
Malformed(f) == disk[f].shape \in SkipShapes

\* The candidates in ascending filename order
Ascending(S) ==
    CHOOSE s \in Listings(S) : \A i, j \in 1..Len(s) : i < j => StrLess(s[i], s[j])

RECURSIVE ConcatAlerts(_)
ConcatAlerts(files) ==
    IF files = <<>> THEN <<>>
    ELSE (IF Extracted(Head(files)) THEN disk[Head(files)].alerts ELSE <<>>)
         \o ConcatAlerts(Tail(files))

RECURSIVE RegionsOf(_)
RegionsOf(files) ==
    IF files = <<>> THEN <<>>
    ELSE (IF Extracted(Head(files)) THEN <<RegionName(Head(files))>> ELSE <<>>)
         \o RegionsOf(Tail(files))

RECURSIVE SumOfCounts(_)
SumOfCounts(S) ==
    IF S = {} THEN 0
    ELSE LET f == CHOOSE g \in S : TRUE
         IN  (IF Extracted(f) THEN Len(disk[f].alerts) ELSE 0) + SumOfCounts(S \ {f})

Count(s, c) == Cardinality({i \in 1..Len(s) : s[i] = c})
SameBag(s, t) == \A c \in Cameras : Count(s, c) = Count(t, c)

\* (state, city, street), each upper-cased, the empty string for an absent field
FieldOrEmpty(field) == IF field.p = "absent" THEN <<>> ELSE field.s
UpperKey(x) ==
    <<Upper(FieldOrEmpty(x.state)), Upper(FieldOrEmpty(x.city)),
      Upper(FieldOrEmpty(x.street))>>

\* k1 <= k2, lexicographically
KeyLeq(k1, k2) ==
    \/ k1 = k2
    \/ \E i \in 1..3 : (\A j \in 1..(i - 1) : k1[j] = k2[j]) /\ StrLess(k1[i], k2[i])

WithKey(s, k) == LET HasKey(x) == UpperKey(x) = k IN SelectSeq(s, HasKey)

UnsortedWritten == pc \in {"sort", "write_sorted", "done"}

-----------------------------------------------------------------------------
(* Properties *)

\* C1: once the unsorted bundle is written, and so after a completed run, its
\* staticAlerts is the concatenation, over the candidate files in ascending
\* filename order, of the staticAlerts of every extracted file, each record
\* as it stands in its file.
C1_UnsortedIsConcatenation ==
    UnsortedWritten =>
        /\ disk[bundle_path].shape = "ok"
        /\ UnsortedAlerts = ConcatAlerts(Ascending(Candidates))

\* A completed run over two files with different records, listed TX before CA.
C1_Witness ==
    /\ pc = "done"
    /\ regional_files = <<N_TX, N_CA>>
    /\ Extracted(N_TX) /\ Extracted(N_CA)
    /\ disk[N_TX].alerts # <<>> /\ Len(disk[N_CA].alerts) >= 2
    /\ disk[N_CA].alerts \o disk[N_TX].alerts # disk[N_TX].alerts \o disk[N_CA].alerts

\* C2: after a completed run the unsorted bundle, the sorted bundle and the
\* value rebuild_bundles returned all count the sum of the record counts of
\* the extracted files.
C2_Conservation ==
    pc = "done" =>
        /\ Len(UnsortedAlerts) = SumOfCounts(Candidates)
        /\ Len(SortedAlerts) = SumOfCounts(Candidates)
        /\ camera_count = SumOfCounts(Candidates)

\* A completed run over two files that hold the same record: it is counted twice.
C2_Witness ==
    /\ pc = "done"
    /\ camera_count = 3
    /\ \E i \in 1..Len(disk[N_TX].alerts) : \E j \in 1..Len(disk[N_CA].alerts) :
          disk[N_TX].alerts[i] = disk[N_CA].alerts[j]

\* C3: after the sort the sorted sequence holds the same records, each as
\* often, as the accumulated one, the accumulated one is still what the
\* unsorted bundle holds, and after a completed run the two bundles hold the
\* same multiset of records.
C3_Permutation ==
    /\ pc \in {"write_sorted", "done"} =>
          /\ SameBag(sorted_cameras, all_cameras)
          /\ Len(sorted_cameras) = Len(all_cameras)
          /\ all_cameras = UnsortedAlerts
    /\ pc = "done" =>
          /\ SameBag(SortedAlerts, UnsortedAlerts)
          /\ Len(SortedAlerts) = Len(UnsortedAlerts)

\* A completed run whose sort moved records and that holds a record twice.
C3_Witness ==
    /\ pc = "done"
    /\ SortedAlerts # UnsortedAlerts
    /\ \E c \in Cameras : Count(UnsortedAlerts, c) = 2

\* C4: in the sorted bundle the upper-cased (state, city, street) of a record,
\* an absent field taken as the empty string, is lexicographically at most
\* that of the record behind it.
C4_SortCorrect ==
    /\ pc = "write_sorted" =>
          \A i \in 1..(Len(sorted_cameras) - 1) :
             KeyLeq(UpperKey(sorted_cameras[i]), UpperKey(sorted_cameras[i + 1]))
    /\ pc = "done" =>
          \A i \in 1..(Len(SortedAlerts) - 1) :
             KeyLeq(UpperKey(SortedAlerts[i]), UpperKey(SortedAlerts[i + 1]))

\* A sorted bundle in which a lower-case record without street stands before
\* an upper-case one it followed in the unsorted bundle, and a record without
\* city stands first.
C4_Witness ==
    /\ pc = "done"
    /\ UnsortedAlerts = <<c_CA, c_TX_A_B, c_tx_a, c_TX_b>>
    /\ SortedAlerts = <<c_CA, c_TX_b, c_tx_a, c_TX_A_B>>

\* C5: the records of one upper-cased key stand in the sorted bundle in the
\* order they have in the unsorted bundle.
C5_Stable ==
    /\ pc = "write_sorted" =>
          \A i \in 1..Len(all_cameras) :
             WithKey(sorted_cameras, UpperKey(all_cameras[i]))
                = WithKey(all_cameras, UpperKey(all_cameras[i]))
    /\ pc = "done" =>
          \A i \in 1..Len(UnsortedAlerts) :
             WithKey(SortedAlerts, UpperKey(UnsortedAlerts[i]))
                = WithKey(UnsortedAlerts, UpperKey(UnsortedAlerts[i]))

\* Two different records of equal key, a record of a smaller key behind them.
C5_Witness ==
    /\ pc = "done"
    /\ UnsortedAlerts = <<c_TX_A, c_tx_a, c_CA, c_TX_A>>
    /\ SortedAlerts = <<c_CA, c_TX_A, c_tx_a, c_TX_A>>

\* C6: a malformed candidate or one without feeds[0].staticAlerts is skipped:
\* it adds no record and no region, the files after it are still processed,
\* the run does not fail while loading, and a completed run has the records
\* of all valid files in both bundles.
C6_FaultIsolation ==
    /\ LET done_files == SubSeq(Ascending(Candidates), 1,
                                Cardinality(Candidates) - Len(queue))
       IN  pc # "discover" =>
              /\ regions_processed = RegionsOf(done_files)
              /\ all_cameras = ConcatAlerts(done_files)
              /\ opened = {done_files[i] : i \in 1..Len(done_files)}
    /\ pc \notin {"discover", "load"} => queue = <<>> /\ opened = Candidates
    /\ pc = "failed" => err \in {"WriteError", "AttributeError"}
    /\ pc = "done" =>
          /\ UnsortedAlerts = ConcatAlerts(Ascending(Candidates))
          /\ SameBag(SortedAlerts, ConcatAlerts(Ascending(Candidates)))

\* A completed run in which the first candidate was skipped and the second
\* gave its records.
C6_Witness ==
    /\ pc = "done"
    /\ Malformed(N_CA)
    /\ Extracted(N_TX) /\ Len(disk[N_TX].alerts) = 3
    /\ opened = {N_CA, N_TX}
    /\ regions_processed = <<<<84, 88>>>>
    /\ camera_count = 3

\* C7: no file whose name contains 'Bundle' is listed as regional file or
\* opened as input, and a second run over the bundles of a completed first
\* run collects as many records as the first.
C7_SelfExclusion ==
    /\ \A f \in opened : ~Contains(f, S_Bundle)
    /\ \A i \in 1..Len(regional_files) : ~Contains(regional_files[i], S_Bundle)
    /\ (second_run /\ prev_exit = 0 /\ pc \notin {"discover", "load"}) =>
          Len(all_cameras) = Len(disk0[bundle_path].alerts)

\* A second run that completed in a directory where the first run left both
\* bundles with records in them.
C7_Witness ==
    /\ second_run /\ prev_exit = 0 /\ pc = "done"
    /\ disk0[bundle_path].shape = "ok" /\ Len(disk0[bundle_path].alerts) = 3
    /\ disk0[sorted_bundle_path].shape = "ok"
    /\ opened = {N_CA, N_TX}

\* C8: a second run that completes on the directory a completed first run
\* left writes the two bundles the first run wrote, whatever order the two
\* directory listings had.
C8_Idempotent ==
    (second_run /\ prev_exit = 0 /\ pc = "done") =>
        /\ disk[bundle_path] = disk0[bundle_path]
        /\ disk[sorted_bundle_path] = disk0[sorted_bundle_path]

\* A completed second run whose listing gave TX before CA, over two files
\* whose records differ.
C8_Witness ==
    /\ second_run /\ prev_exit = 0 /\ pc = "done"
    /\ regional_files = <<N_TX, N_CA>>
    /\ disk[N_TX].alerts = <<c_tx_a>>
    /\ disk[N_CA].alerts = <<c_CA, c_tx_a>>

\* C9: a process ends in one of two outcomes: done with exit status 0, no
\* error and both bundles written from this run's records, or failed with a
\* non-zero exit status and the error caught.  A process that got past the
\* unsorted write or the sort did so without an error, and an error is never
\* one of the loading loop.
C9_ExitStatus ==
    /\ pc \in {"discover", "load", "write_unsorted", "sort", "write_sorted",
               "done", "failed"}
    /\ pc \notin {"done", "failed"} => exit_code = -1 /\ err = "none"
    /\ pc = "done" =>
          /\ exit_code = 0 /\ err = "none"
          /\ disk[bundle_path] = Bundle("unsorted", all_cameras)
          /\ disk[sorted_bundle_path] = Bundle("sorted", sorted_cameras)
          /\ camera_count = Len(all_cameras)
    /\ pc = "failed" =>
          /\ exit_code # 0 /\ exit_code # -1
          /\ err \in {"WriteError", "AttributeError"}
          /\ camera_count = -1
          /\ queue = <<>>
    /\ pc \in {"write_sorted", "done"} => ~SortRaises(all_cameras)
    /\ disk[bundle_path] = Truncated => pc = "failed" \/ disk0[bundle_path] = Truncated
    /\ disk[sorted_bundle_path] = Truncated =>
          pc = "failed" \/ disk0[sorted_bundle_path] = Truncated

\* A process that skipped a malformed file and then failed writing the
\* sorted bundle.
C9_Witness ==
    /\ pc = "failed" /\ err = "WriteError" /\ exit_code = 1
    /\ disk[sorted_bundle_path] = Truncated
    /\ disk[bundle_path].shape = "ok"
    /\ \E f \in Candidates : Malformed(f)

\* C10: the sorted bundle is as the process found it until the sort has
\* succeeded, the unsorted bundle holds this run's records before the sort
\* is tried, and a process that fails in the sort exits non-zero with the
\* unsorted bundle overwritten and the sorted bundle untouched.
C10_WriteOrder ==
    /\ pc \in {"discover", "load", "write_unsorted", "sort"} =>
          disk[sorted_bundle_path] = disk0[sorted_bundle_path]
    /\ pc = "sort" => disk[bundle_path] = Bundle("unsorted", all_cameras)
    /\ disk[sorted_bundle_path] # disk0[sorted_bundle_path] =>
          /\ ~SortRaises(all_cameras)
          /\ disk[bundle_path] = Bundle("unsorted", all_cameras)
    /\ (pc = "failed" /\ err = "AttributeError") =>
          /\ exit_code # 0
          /\ SortRaises(all_cameras)
          /\ disk[bundle_path] = Bundle("unsorted", all_cameras)
          /\ disk[sorted_bundle_path] = disk0[sorted_bundle_path]

\* A process that failed in the sort over a stale pair of bundles: the
\* unsorted bundle has this run's records, the sorted bundle those of the
\* earlier run.
C10_Witness ==
    /\ pc = "failed" /\ err = "AttributeError" /\ exit_code = 1
    /\ disk0[bundle_path] = StaleUnsorted
    /\ disk[bundle_path] = Bundle("unsorted", <<c_CA, c_num, c_tx_a>>)
    /\ disk[sorted_bundle_path] = StaleSorted
    /\ ~SameBag(UnsortedAlerts, SortedAlerts)

====
